---- MODULE Spec2Model ----
(***************************************************************************)
(* Comment-API: the comment table, the five request handlers of            *)
(* router/comment.py with the storage functions of db/db_comment.py they   *)
(* delegate to, and the response each request ends with.                   *)
(*                                                                         *)
(* A request is handled in one step: every handler runs one statement in   *)
(* its own session and either commits or raises (get_async_db rolls back). *)
(* Optional values (str | None, int | None) are sets of at most one        *)
(* element: {} is None/NULL, {v} is the value v.                           *)
(***************************************************************************)
EXTENDS Integers, Sequences, FiniteSets, TLC

(* ------------------------------ bounds --------------------------------- *)

\* ids the sequence of the comment table hands out are 1..MaxId
MaxId == 2
\* seconds that pass on the server clock from one insert to the next
TickSeconds == 30

(* ------------------------- program constants --------------------------- *)

\* Field(max_length=256) of the three request models
max_length == 256
\* limit: int = 10 of the read_all endpoint
default_limit == 10

HTTP_200_OK == 200
HTTP_201_CREATED == 201
HTTP_204_NO_CONTENT == 204
HTTP_400_BAD_REQUEST == 400
HTTP_404_NOT_FOUND == 404
HTTP_422_UNPROCESSABLE_CONTENT == 422
HTTP_500_INTERNAL_SERVER_ERROR == 500
HTTP_503_SERVICE_UNAVAILABLE == 503
HTTP_409_CONFLICT == 409
HTTP_504_GATEWAY_TIMEOUT == 504

(* --------------------------- request inputs ---------------------------- *)

X16 == "xxxxxxxxxxxxxxxx"
X64 == X16 \o X16 \o X16 \o X16
\* a text of exactly max_length characters, and one character more
X256 == X64 \o X64 \o X64 \o X64
X257 == X256 \o "x"

None == {}
Some(v) == {v}
Val(o) == CHOOSE v \in o : TRUE

\* caller identities resolved by get_current_user_id
Users == {7, 9}
Posts == {1}
\* request bodies: text as sent by the client (JSON null is None)
Texts == {"hello", "bye", X257}
\* path parameter comment_id
CommentIds == 1 .. MaxId
\* query parameters of read_all
Limits == {-2, -1, 0, 1, 2, default_limit}
Cursors == {None} \cup {Some(c) : c \in 0 .. MaxId}

VARIABLES
    comment,    \* the rows of table "comment" (DbComment)
    id_seq,     \* next value of the primary key sequence
    request,    \* the request handled last
    response,   \* the response it ended with
    scenario,   \* how many requests of Script the requests so far have been
    traversal,  \* a client following next_cursor from the first page on
    raised,     \* the exception the handling of the last request raised
    mw,         \* CorrelationIdMiddleware.dispatch of each task
    session,    \* the session of each request in flight and what it has done
    began       \* the rows of the table when the requests in flight began

vars ==
    <<comment, id_seq, request, response, scenario, traversal, raised, mw,
      session, began>>

\* what the five handlers, run in one step against a working database, leave
\* alone
untouched == <<raised, mw, session, began>>

\* func.now(): server time in seconds, a clock that every insert advances
now == TickSeconds * (id_seq - 1)

(* ------------------------------ helpers -------------------------------- *)

\* .order_by(DbComment.id.desc()): the rows of S as a sequence, largest id first
RECURSIVE order_by_id_desc(_)
order_by_id_desc(S) ==
    IF S = {} THEN <<>>
    ELSE LET top == CHOOSE r \in S : \A q \in S : q.id <= r.id
         IN  <<top>> \o order_by_id_desc(S \ {top})

\* .limit(n) of a SELECT, n >= 0
sql_limit(rows, n) == SubSeq(rows, 1, IF n < Len(rows) THEN n ELSE Len(rows))

\* Python's seq[:k]: the first k elements, or all but the last -k when k < 0
py_slice_to(rows, k) ==
    IF k >= 0 THEN SubSeq(rows, 1, IF k < Len(rows) THEN k ELSE Len(rows))
    ELSE SubSeq(rows, 1, IF Len(rows) + k > 0 THEN Len(rows) + k ELSE 0)

\* strftime('%Y-%m-%dT%H:%M'): the time with its seconds dropped
format_timestamp(dt) == dt - (dt % 60)

\* pydantic's check of the field text: str of the display models
text_is_str(row) == row.text # None

\* CommentDisplay / Comments as serialised for a row that validates
CommentDisplay(row) ==
    [id |-> row.id, user_id |-> row.user_id, post_id |-> row.post_id,
     text |-> Val(row.text), timestamp |-> format_timestamp(row.timestamp)]

Req(op, user, cid, post, text_set, text, limit, last_id) ==
    [op |-> op, current_user_id |-> user, comment_id |-> cid, post_id |-> post,
     text_set |-> text_set, text |-> text, limit |-> limit, last_id |-> last_id]

Resp(status, body) == [status_code |-> status, body |-> body]

\* the detail of an error response, with the number its text is formatted with
Detail(text, arg) == [detail |-> text, arg |-> arg]

\* RequestValidationError -> validation_exception_handler
validation_error ==
    Resp(HTTP_422_UNPROCESSABLE_CONTENT, Detail("Validation Error", 0))
\* an exception no other handler takes -> universal_handler
universal_handler ==
    Resp(HTTP_500_INTERNAL_SERVER_ERROR, Detail("A critical server error occurred.", 0))
\* ProgrammingError whose sqlstate is neither 42P01 nor 42703 (42601: syntax error)
programming_error_handler ==
    Resp(HTTP_500_INTERNAL_SERVER_ERROR,
         Detail("Internal Database Command Failed: raw_error: 42601", 0))
\* DBAPIError -> connection_management_handler
connection_management_handler ==
    Resp(HTTP_503_SERVICE_UNAVAILABLE,
         Detail("Database communication failure. The service is temporarily unavailable.", 0))

\* the result of a storage function: the table as committed, and the response
Outcome(tbl, resp) == [comment |-> tbl, response |-> resp]

\* CommentDisplay.model_validate(row) as the handler's return value: a row whose
\* text is NULL fails the validation of text: str, after the commit
display_response(status, row) ==
    IF text_is_str(row) THEN Resp(status, CommentDisplay(row)) ELSE universal_handler

(* ----------------------------- validation ------------------------------ *)

\* Path(gt=0) of comment_id
CommentIdPath(comment_id) == comment_id > 0

\* text: str, max_length=256, required
CommentModel(text) == text # None /\ Len(Val(text)) <= max_length

\* text: str, min_length=0, max_length=256, required
CommentUpdateModel(text) == text # None /\ Len(Val(text)) <= max_length

\* text: str | None = None, min_length=0, max_length=256
CommentPatchModel(text_set, text) ==
    text_set => (text = None \/ Len(Val(text)) <= max_length)

(* ------------------------- storage functions --------------------------- *)

\* db_comment.create: insert the row, commit, return it
db_create(tbl, seq, ts, post_id, text, current_user_id) ==
    LET new_comment == [id |-> seq, user_id |-> current_user_id,
                        post_id |-> post_id, text |-> text, timestamp |-> ts]
    IN  Outcome(tbl \cup {new_comment},
                display_response(HTTP_201_CREATED, new_comment))

\* the rows read_all's query may return: those under the cursor, when
\* "if last_id:" takes the cursor as given
read_all_where(tbl, last_id) ==
    IF last_id # None /\ Val(last_id) # 0
    THEN {r \in tbl : r.id < Val(last_id)}
    ELSE tbl

\* read_all returning next_cursor whether or not there are more pages
read_all_page_ungated(fetched, limit) ==
    LET items == py_slice_to(fetched, limit)
        next_cursor == IF items # <<>> THEN Some(items[Len(items)].id) ELSE None
        has_more == Len(fetched) > limit
    IN  IF \E i \in 1 .. Len(items) : ~text_is_str(items[i])
        THEN universal_handler
        ELSE Resp(HTTP_200_OK,
                  [items |-> [i \in 1 .. Len(items) |-> CommentDisplay(items[i])],
                   next_cursor |-> next_cursor,
                   has_more |-> has_more])

\* what read_all returns once the query has run
read_all_page(fetched, limit) ==
    LET items == py_slice_to(fetched, limit)
        next_cursor == IF items # <<>> THEN Some(items[Len(items)].id) ELSE None
        has_more == Len(fetched) > limit
    IN  IF \E i \in 1 .. Len(items) : ~text_is_str(items[i])
        THEN universal_handler
        ELSE Resp(HTTP_200_OK,
                  [items |-> [i \in 1 .. Len(items) |-> CommentDisplay(items[i])],
                   next_cursor |-> IF has_more THEN next_cursor ELSE None,
                   has_more |-> has_more])

\* db_comment.read_all; LIMIT of a negative number is an error of the database
db_read_all(tbl, limit, last_id) ==
    IF limit + 1 < 0
    THEN connection_management_handler
    ELSE read_all_page(
             sql_limit(order_by_id_desc(read_all_where(tbl, last_id)), limit + 1),
             limit)

\* a WHERE clause on the id alone
update_where_by_id(r, comment_id, current_user_id) == r.id = comment_id
\* WHERE id = comment_id AND user_id = current_user_id of the three writes
update_where(r, comment_id, current_user_id) ==
    r.id = comment_id /\ r.user_id = current_user_id
patch_where(r, comment_id, current_user_id) ==
    r.id = comment_id /\ r.user_id = current_user_id
delete_where(r, comment_id, current_user_id) ==
    r.id = comment_id /\ r.user_id = current_user_id

not_found_404(comment_id) ==
    Resp(HTTP_404_NOT_FOUND, Detail("No comment with id: {comment_id} not found.", comment_id))
not_found_400 ==
    Resp(HTTP_400_BAD_REQUEST, Detail("Comment either not found or unauthorized", 0))

\* an UPDATE that also refreshes the timestamp (onupdate=func.now())
update_values_touch(r, text) == [r EXCEPT !.text = text, !.timestamp = now]

\* .values(text=request.text) applied to a row
update_values(r, text) == [r EXCEPT !.text = text]

\* db_comment.update: UPDATE ... RETURNING, 404 when no row comes back
db_update(tbl, comment_id, text, current_user_id) ==
    LET matched == {r \in tbl : update_where(r, comment_id, current_user_id)}
        updated == {update_values(r, text) : r \in matched}
    IN  IF updated = {}
        THEN Outcome(tbl, not_found_404(comment_id))
        ELSE Outcome((tbl \ matched) \cup updated,
                     display_response(HTTP_200_OK, CHOOSE r \in updated : TRUE))

\* request.model_dump(): every field, the unset ones with their default None
model_dump(text_set, text) == {<<"text", text>>}

\* request.model_dump(exclude_unset=True): the fields the request carries
model_dump_exclude_unset(text_set, text) ==
    IF text_set THEN {<<"text", text>>} ELSE {}

\* .values(**updated_data) applied to a row
patch_values(r, updated_data) ==
    IF \E kv \in updated_data : kv[1] = "text"
    THEN [r EXCEPT !.text = (CHOOSE kv \in updated_data : kv[1] = "text")[2]]
    ELSE r

\* db_comment.patch: an UPDATE with no values is "UPDATE comment SET  WHERE ...",
\* which the database rejects as a syntax error whatever the rows are
db_patch(tbl, comment_id, text_set, text, current_user_id) ==
    LET updated_data == model_dump_exclude_unset(text_set, text)
        matched == {r \in tbl : patch_where(r, comment_id, current_user_id)}
        updated == {patch_values(r, updated_data) : r \in matched}
    IN  IF updated_data = {}
        THEN Outcome(tbl, programming_error_handler)
        ELSE IF updated = {}
        THEN Outcome(tbl, not_found_404(comment_id))
        ELSE Outcome((tbl \ matched) \cup updated,
                     display_response(HTTP_200_OK, CHOOSE r \in updated : TRUE))

\* db_comment.delete: 400 when result.rowcount == 0
db_delete(tbl, comment_id, current_user_id) ==
    LET matched == {r \in tbl : delete_where(r, comment_id, current_user_id)}
    IN  IF Cardinality(matched) = 0
        THEN Outcome(tbl, not_found_400)
        ELSE Outcome(tbl \ matched, Resp(HTTP_204_NO_CONTENT, Detail("", 0)))


(* ------------------------------- clients ------------------------------- *)

\* the requests of the scenario of section 8, in order, sent to a new database
Script ==
    << Req("create", 7, 0, 1, TRUE, Some("hello"), 0, None),
       Req("read_all", 0, 0, 0, FALSE, None, default_limit, None),
       Req("update", 9, 1, 0, TRUE, Some("bye"), 0, None),
       Req("update", 7, 1, 0, TRUE, Some("bye"), 0, None),
       Req("delete", 7, 1, 0, FALSE, None, 0, None),
       Req("read_all", 0, 0, 0, FALSE, None, default_limit, None) >>

\* scenario counts the requests of Script made so far, and is -1 once any
\* other request has been made
Observe ==
    scenario' = IF scenario >= 0 /\ scenario < Len(Script)
                   /\ request' = Script[scenario + 1]
                THEN scenario + 1 ELSE -1

idle ==
    [phase |-> "idle", limit |-> 0, cursor |-> None, got |-> <<>>, quiet |-> TRUE,
     seq |-> 0]

\* the traversal t after another request: one with a page to come goes on, and
\* sees whether the request wrote (quiet becomes FALSE); one that has ended is
\* forgotten
after_request(t, wrote) ==
    IF t.phase = "more" THEN [t EXCEPT !.quiet = t.quiet /\ ~wrote] ELSE idle

\* the traversal t after the response resp to its request for the next page
after_page(t, resp) ==
    IF resp.status_code # HTTP_200_OK THEN [t EXCEPT !.phase = "failed"]
    ELSE [t EXCEPT !.phase = IF resp.body.has_more THEN "more" ELSE "done",
                   !.cursor = resp.body.next_cursor,
                   !.got = t.got \o [i \in 1 .. Len(resp.body.items) |->
                                        resp.body.items[i].id]]

(* --------------------------- error classifier --------------------------- *)

\* the exception classes a request can end with, each with its first base
\* class: sqlalchemy.exc (imported by exc/exceptions.py), sqlalchemy.orm.exc,
\* fastapi.exceptions, pydantic and the builtins
bases ==
    << <<"SQLAlchemyError", "Exception">>,
       <<"ArgumentError", "SQLAlchemyError">>,
       <<"DuplicateColumnError", "ArgumentError">>,
       <<"ObjectNotExecutableError", "ArgumentError">>,
       <<"NoSuchModuleError", "ArgumentError">>,
       <<"NoForeignKeysError", "ArgumentError">>,
       <<"AmbiguousForeignKeysError", "ArgumentError">>,
       <<"ConstraintColumnNotFoundError", "ArgumentError">>,
       <<"CircularDependencyError", "SQLAlchemyError">>,
       <<"CompileError", "SQLAlchemyError">>,
       <<"UnsupportedCompilationError", "CompileError">>,
       <<"IdentifierError", "SQLAlchemyError">>,
       <<"DisconnectionError", "SQLAlchemyError">>,
       <<"InvalidatePoolError", "DisconnectionError">>,
       <<"TimeoutError", "SQLAlchemyError">>,
       <<"InvalidRequestError", "SQLAlchemyError">>,
       <<"IllegalStateChangeError", "InvalidRequestError">>,
       <<"NoInspectionAvailable", "InvalidRequestError">>,
       <<"PendingRollbackError", "InvalidRequestError">>,
       <<"ResourceClosedError", "InvalidRequestError">>,
       <<"NoSuchColumnError", "InvalidRequestError">>,
       <<"NoResultFound", "InvalidRequestError">>,
       <<"MultipleResultsFound", "InvalidRequestError">>,
       <<"NoReferenceError", "InvalidRequestError">>,
       <<"NoReferencedTableError", "NoReferenceError">>,
       <<"NoReferencedColumnError", "NoReferenceError">>,
       <<"NoSuchTableError", "InvalidRequestError">>,
       <<"UnreflectableTableError", "InvalidRequestError">>,
       <<"UnboundExecutionError", "InvalidRequestError">>,
       <<"AwaitRequired", "InvalidRequestError">>,
       <<"MissingGreenlet", "InvalidRequestError">>,
       <<"StatementError", "SQLAlchemyError">>,
       <<"DBAPIError", "StatementError">>,
       <<"InterfaceError", "DBAPIError">>,
       <<"DatabaseError", "DBAPIError">>,
       <<"DataError", "DatabaseError">>,
       <<"OperationalError", "DatabaseError">>,
       <<"IntegrityError", "DatabaseError">>,
       <<"InternalError", "DatabaseError">>,
       <<"ProgrammingError", "DatabaseError">>,
       <<"NotSupportedError", "DatabaseError">>,
       <<"StaleDataError", "SQLAlchemyError">>,
       <<"DetachedInstanceError", "SQLAlchemyError">>,
       <<"UnmappedError", "InvalidRequestError">>,
       <<"UnmappedInstanceError", "UnmappedError">>,
       <<"RequestValidationError", "ValidationException">>,
       <<"ValidationException", "Exception">>,
       <<"ValidationError", "ValueError">>,
       <<"ValueError", "Exception">>,
       <<"ConnectionRefusedError", "ConnectionError">>,
       <<"ConnectionError", "OSError">>,
       <<"builtins.TimeoutError", "OSError">>,
       <<"OSError", "Exception">>,
       <<"Exception", "BaseException">> >>

ExceptionClasses == {bases[i][1] : i \in DOMAIN bases}

\* type(exc).__mro__, up to Exception
RECURSIVE mro(_)
mro(cls) ==
    IF cls \notin ExceptionClasses \/ cls = "Exception" THEN <<cls>>
    ELSE <<cls>> \o mro(bases[CHOOSE i \in DOMAIN bases : bases[i][1] = cls][2])

\* app.exception_handler(cls)(handler), in the order add_exception_handlers
\* applies the decorators (the lowest decorator of a handler first)
exception_handlers ==
    << <<"IdentifierError", "data_value_handler">>,
       <<"DataError", "data_value_handler">>,
       <<"IllegalStateChangeError", "execution_state_handler">>,
       <<"ResourceClosedError", "execution_state_handler">>,
       <<"NoResultFound", "execution_state_handler">>,
       <<"MultipleResultsFound", "execution_state_handler">>,
       <<"IntegrityError", "integrity_exception_handler">>,
       <<"NoReferencedTableError", "no_referenced_table_handler">>,
       <<"ProgrammingError", "programming_error_handler">>,
       <<"DBAPIError", "connection_management_handler">>,
       <<"InterfaceError", "connection_management_handler">>,
       <<"InvalidatePoolError", "connection_management_handler">>,
       <<"DisconnectionError", "connection_management_handler">>,
       <<"NotSupportedError", "statement_error_handler">>,
       <<"UnboundExecutionError", "statement_error_handler">>,
       <<"ObjectNotExecutableError", "statement_error_handler">>,
       <<"StatementError", "statement_error_handler">>,
       <<"MissingGreenlet", "session_lifecycle_handler">>,
       <<"InvalidRequestError", "session_lifecycle_handler">>,
       <<"PendingRollbackError", "session_lifecycle_handler">>,
       <<"UnreflectableTableError", "engine_metadata_handler">>,
       <<"NoInspectionAvailable", "engine_metadata_handler">>,
       <<"DatabaseError", "engine_metadata_handler">>,
       <<"InternalError", "engine_metadata_handler">>,
       <<"NoReferenceError", "relationship_linkage_handler">>,
       <<"NoReferencedColumnError", "relationship_linkage_handler">>,
       <<"NoForeignKeysError", "relationship_linkage_handler">>,
       <<"CompileError", "internal_logic_handler">>,
       <<"UnsupportedCompilationError", "internal_logic_handler">>,
       <<"AwaitRequired", "internal_logic_handler">>,
       <<"ArgumentError", "internal_logic_handler">>,
       <<"DuplicateColumnError", "schema_logic_handler">>,
       <<"ConstraintColumnNotFoundError", "schema_logic_handler">>,
       <<"CircularDependencyError", "schema_logic_handler">>,
       <<"AmbiguousForeignKeysError", "schema_logic_handler">>,
       <<"NoSuchColumnError", "schema_mismatch_handler">>,
       <<"NoSuchTableError", "schema_mismatch_handler">>,
       <<"NoSuchModuleError", "module_error_handler">>,
       <<"SQLAlchemyError", "sqlalchemy_exception_handler">>,
       <<"OperationalError", "operational_handler">>,
       <<"RequestValidationError", "validation_exception_handler">>,
       <<"TimeoutError", "timeout_handler">>,
       <<"Exception", "universal_handler">> >>

\* the handler the application finds for an exception of class cls: the
\* first registered handler, in registration order, of a class cls derives from
lookup_first_registered(cls) ==
    LET m == mro(cls)
        i == CHOOSE k \in DOMAIN exception_handlers :
                 /\ \E j \in DOMAIN m : m[j] = exception_handlers[k][1]
                 /\ \A l \in 1 .. k - 1 :
                        ~\E j \in DOMAIN m : m[j] = exception_handlers[l][1]
    IN  exception_handlers[i][2]
\* the handler the application finds for an exception of class cls: the one
\* registered for the first class of type(exc).__mro__ that has one
lookup_handler(cls) ==
    LET m == mro(cls)
        registered == {exception_handlers[k][1] : k \in DOMAIN exception_handlers}
        j == CHOOSE k \in DOMAIN m :
                 m[k] \in registered /\ \A l \in 1 .. k - 1 : m[l] \notin registered
        i == CHOOSE k \in DOMAIN exception_handlers :
                 /\ exception_handlers[k][1] = m[j]
                 /\ \A l \in DOMAIN exception_handlers :
                        exception_handlers[l][1] = m[j] => l <= k
    IN  exception_handlers[i][2]

\* the classes that wrap an error of the driver: exc.orig has a sqlstate
DBAPIClasses == {c \in ExceptionClasses : \E j \in DOMAIN mro(c) : mro(c)[j] = "DBAPIError"}
\* getattr(exc.orig, "sqlstate", None) as the f-string prints it
SqlStates == {"None", "42P01", "42703", "42601"}
\* str(exc)
Messages == {"connection refused", "relation comment does not exist"}

Exc(cls, message, sqlstate) == [cls |-> cls, message |-> message, sqlstate |-> sqlstate]
no_exception == Exc("", "", "None")
Exceptions ==
    {Exc(c, m, s) : c \in ExceptionClasses, m \in Messages, s \in SqlStates}
        \ {e \in [cls : ExceptionClasses, message : Messages, sqlstate : SqlStates] :
               e.cls \notin DBAPIClasses /\ e.sqlstate # "None"}

\* content with "type": type(exc).__name__
Typed(text, exc) == [detail |-> text, arg |-> 0, type |-> exc.cls]

\* ProgrammingError, by the sqlstate of the driver's error
programming_error_response(exc) ==
    IF exc.sqlstate = "42P01"
    THEN Resp(HTTP_500_INTERNAL_SERVER_ERROR,
              Detail("Database schema error: A required table does not exist.", 0))
    ELSE IF exc.sqlstate = "42703"
    THEN Resp(HTTP_500_INTERNAL_SERVER_ERROR,
              Detail("Database schema error: A column referenced in the code does not exist in the database.", 0))
    ELSE Resp(HTTP_500_INTERNAL_SERVER_ERROR,
              Detail("Internal Database Command Failed: raw_error: " \o exc.sqlstate, 0))

\* the JSONResponse of each handler of add_exception_handlers
handler_response(handler, exc) ==
    CASE handler = "data_value_handler" ->
             Resp(HTTP_400_BAD_REQUEST,
                  Detail("The data provided is incompatible with the database constraints.", 0))
      [] handler = "execution_state_handler" ->
             Resp(IF \E j \in DOMAIN mro(exc.cls) : mro(exc.cls)[j] = "NoResultFound"
                  THEN HTTP_404_NOT_FOUND ELSE HTTP_500_INTERNAL_SERVER_ERROR,
                  Typed("A database execution error occurred.", exc))
      [] handler = "integrity_exception_handler" ->
             Resp(HTTP_409_CONFLICT,
                  Detail("Data conflict: (likely email or username) already exists.", 0))
      [] handler = "no_referenced_table_handler" ->
             Resp(HTTP_500_INTERNAL_SERVER_ERROR,
                  Detail("Database schema error: A required table does not exist.", 0))
      [] handler = "programming_error_handler" -> programming_error_response(exc)
      [] handler = "connection_management_handler" -> connection_management_handler
      [] handler = "statement_error_handler" ->
             Resp(HTTP_500_INTERNAL_SERVER_ERROR,
                  Typed("The database received an invalid command.", exc))
      [] handler = "session_lifecycle_handler" ->
             Resp(HTTP_500_INTERNAL_SERVER_ERROR,
                  Detail("A database session error occurred. The transaction may have failed.", 0))
      [] handler = "engine_metadata_handler" ->
             Resp(HTTP_500_INTERNAL_SERVER_ERROR,
                  Typed("The database engine encountered an internal failure.", exc))
      [] handler = "relationship_linkage_handler" ->
             Resp(HTTP_500_INTERNAL_SERVER_ERROR,
                  Detail("Database relationship configuration error.", 0))
      [] handler = "internal_logic_handler" ->
             Resp(HTTP_500_INTERNAL_SERVER_ERROR,
                  Typed("A database logic error occurred.", exc))
      [] handler = "schema_logic_handler" ->
             Resp(HTTP_500_INTERNAL_SERVER_ERROR,
                  Detail("Database schema relationship error.", 0))
      [] handler = "schema_mismatch_handler" ->
             Resp(HTTP_500_INTERNAL_SERVER_ERROR,
                  Detail("Database structure mismatch.", 0))
      [] handler = "module_error_handler" ->
             Resp(HTTP_500_INTERNAL_SERVER_ERROR,
                  Detail("Server configuration error: A required database driver is missing.", 0))
      [] handler = "sqlalchemy_exception_handler" ->
             Resp(HTTP_500_INTERNAL_SERVER_ERROR,
                  Detail("A database error occurred. Please try again later.", 0))
      [] handler = "operational_handler" ->
             Resp(HTTP_503_SERVICE_UNAVAILABLE,
                  Detail("Database connection failed. Please check if the DB is running.", 0))
      [] handler = "validation_exception_handler" -> validation_error
      [] handler = "timeout_handler" ->
             Resp(HTTP_504_GATEWAY_TIMEOUT,
                  Detail("The database took too long to respond.", 0))
      [] handler = "universal_handler" -> universal_handler

\* the response a request ends with when its handling raises exc
exception_response(exc) == handler_response(lookup_handler(exc.cls), exc)

\* the request Script[i], whose handling raises exc before anything is
\* committed: get_async_db rolls back, the application answers for exc
raises(i, exc) ==
    /\ request' = Script[i]
    /\ raised' = exc
    /\ response' = exception_response(exc)
    /\ scenario' = -1
    /\ traversal' = after_request(traversal, FALSE)
    /\ UNCHANGED <<comment, id_seq>>

\* a request of the scenario fails in the storage layer
request_raises ==
    \E i \in DOMAIN Script, exc \in Exceptions :
        raises(i, exc) /\ UNCHANGED <<mw, session, began>>

\* HTTPException(503, detail=f"Database connection failed: {str(e)}")
health_failure(exc) ==
    Resp(HTTP_503_SERVICE_UNAVAILABLE,
         Detail("Database connection failed: " \o exc.message, 0))

\* GET /health where SELECT 1 answers
health_answers ==
    /\ request' = Req("health", 0, 0, 0, FALSE, None, 0, None)
    /\ raised' = no_exception
    /\ response' = Resp(HTTP_200_OK, Detail("healthy", 0))
    /\ scenario' = -1
    /\ traversal' = after_request(traversal, FALSE)
    /\ UNCHANGED <<comment, id_seq>>

\* GET /health where SELECT 1 raises exc, which becomes HTTPException(503)
health_fails(exc) ==
    /\ request' = Req("health", 0, 0, 0, FALSE, None, 0, None)
    /\ raised' = exc
    /\ response' = health_failure(exc)
    /\ scenario' = -1
    /\ traversal' = after_request(traversal, FALSE)
    /\ UNCHANGED <<comment, id_seq>>

\* GET /health
health_check ==
    /\ health_answers \/ \E exc \in Exceptions : health_fails(exc)
    /\ UNCHANGED <<mw, session, began>>

(* ----------------------- CorrelationIdMiddleware ------------------------ *)

\* requests in flight at once, each served in a task with its own context
Tasks == {"t1", "t2"}
\* the inbound X-Request-ID header, if any
Headers == {None, Some("abc")}
\* str(uuid.uuid4()): a new identifier for each task
uuid4(t) == "uuid4-" \o t
\* ContextVar("request_id", default="n/a")
request_id_default == "n/a"

\* request.headers.get("X-Request-ID", default)
headers_get(h, default) == IF h # None THEN Val(h) ELSE default

\* a task before it is given a request
no_dispatch ==
    [pc |-> "idle", header |-> None, corr_id |-> "", request_id_ctx |-> request_id_default,
     token |-> request_id_default, seen |-> "", x_request_id |-> None]

\* the exceptions the handling of a request is made to raise here
Raisable == {e \in Exceptions : e.message = "connection refused" /\ e.sqlstate = "None"}

\* dispatch up to "await call_next(request)": corr_id from the header or new,
\* request_id_ctx set in the task's context, the old value kept in token
dispatch(t) ==
    /\ mw[t].pc \in {"idle", "done"}
    /\ \E h \in Headers :
           LET corr_id == headers_get(h, uuid4(t))
           IN  mw' = [mw EXCEPT ![t] = [no_dispatch EXCEPT !.pc = "called",
                                                         !.header = h,
                                                         !.corr_id = corr_id,
                                                         !.token = no_dispatch.request_id_ctx,
                                                         !.request_id_ctx = corr_id]]
    /\ UNCHANGED <<comment, id_seq, request, response, scenario, traversal, raised,
                   session, began>>

\* call_next returns a response (the endpoint's, or that of a handler of
\* ExceptionMiddleware); dispatch puts corr_id in its headers and resets the
\* context variable
call_next_returns(t) ==
    /\ mw[t].pc = "called"
    /\ \/ health_answers
       \/ \E exc \in Raisable : health_fails(exc)
       \/ \E exc \in Raisable :
              lookup_handler(exc.cls) # "universal_handler" /\ raises(2, exc)
    /\ mw' = [mw EXCEPT ![t].pc = "done",
                        ![t].seen = mw[t].request_id_ctx,
                        ![t].x_request_id = Some(mw[t].corr_id),
                        ![t].request_id_ctx = mw[t].token]
    /\ UNCHANGED <<session, began>>

\* call_next raises: only the handler registered for Exception takes the
\* exception, and that one runs in ServerErrorMiddleware, outside this
\* middleware; dispatch is left by the exception
call_next_raises(t) ==
    /\ mw[t].pc = "called"
    /\ \E exc \in Raisable :
           lookup_handler(exc.cls) = "universal_handler" /\ raises(2, exc)
    /\ mw' = [mw EXCEPT ![t].pc = "done",
                        ![t].seen = mw[t].request_id_ctx]
    /\ UNCHANGED <<session, began>>

(* ------------------------------ sessions ------------------------------- *)

\* requests handled at once, each with the session get_async_db yields it
Sessions == {"s1", "s2"}

\* a session nobody has acquired: no request, no pending write (old: the rows
\* the statement matched and locked, new: what the commit puts in their place,
\* wrote: the statement has written)
no_session ==
    [pc |-> "idle", req |-> Req("none", 0, 0, 0, FALSE, None, 0, None),
     old |-> {}, new |-> {}, wrote |-> FALSE, resp |-> Resp(0, Detail("", 0)),
     fault |-> FALSE]

(* -------------------------------- Init --------------------------------- *)

Init ==
    /\ comment = {}
    /\ id_seq = 1
    /\ request = Req("none", 0, 0, 0, FALSE, None, 0, None)
    /\ response = Resp(0, Detail("", 0))
    /\ scenario = 0
    /\ traversal = idle
    /\ raised = no_exception
    /\ mw = [t \in Tasks |-> no_dispatch]
    /\ session = [s \in Sessions |-> no_session]
    /\ began = {}

(* ------------------------------ handlers ------------------------------- *)

\* POST /create, as long as the sequence has not passed n
create_upto(n) ==
    \E u \in Users, p \in Posts, t \in {Some(x) : x \in Texts} \cup {None} :
        /\ request' = Req("create", u, 0, p, TRUE, t, 0, None)
        /\ IF ~CommentModel(t)
           THEN /\ response' = validation_error
                /\ traversal' = after_request(traversal, FALSE)
                /\ UNCHANGED <<comment, id_seq>>
           ELSE /\ id_seq <= n
                /\ LET out == db_create(comment, id_seq, now, p, t, u)
                   IN  /\ comment' = out.comment
                       /\ response' = out.response
                /\ id_seq' = id_seq + 1
                /\ traversal' = after_request(traversal, TRUE)
        /\ Observe
        /\ UNCHANGED untouched

\* POST /create
create == create_upto(MaxId)

\* POST /create by another client while a traversal has a page to come
create_during == traversal.phase = "more" /\ create_upto(MaxId + 1)

\* GET /read_all
read_all ==
    \E limit \in Limits, last_id \in Cursors :
        /\ request' = Req("read_all", 0, 0, 0, FALSE, None, limit, last_id)
        /\ response' = db_read_all(comment, limit, last_id)
        /\ traversal' = after_request(traversal, FALSE)
        /\ Observe
        /\ UNCHANGED untouched
        /\ UNCHANGED <<comment, id_seq>>

\* PUT /update/{comment_id}
update ==
    \E u \in Users, c \in CommentIds, t \in {Some(x) : x \in Texts} \cup {None} :
        /\ request' = Req("update", u, c, 0, TRUE, t, 0, None)
        /\ IF ~(CommentIdPath(c) /\ CommentUpdateModel(t))
           THEN /\ response' = validation_error
                /\ traversal' = after_request(traversal, FALSE)
                /\ UNCHANGED comment
           ELSE LET out == db_update(comment, c, t, u)
                IN  /\ comment' = out.comment
                    /\ response' = out.response
                    /\ traversal' = after_request(traversal, out.comment # comment)
        /\ Observe
        /\ UNCHANGED untouched
        /\ UNCHANGED id_seq

\* PATCH /patch/{comment_id}: the body may leave text out, or send null
patch ==
    \E u \in Users, c \in CommentIds, text_set \in BOOLEAN,
       t \in {Some(x) : x \in Texts} \cup {None} :
        /\ text_set \/ t = None
        /\ request' = Req("patch", u, c, 0, text_set, t, 0, None)
        /\ IF ~(CommentIdPath(c) /\ CommentPatchModel(text_set, t))
           THEN /\ response' = validation_error
                /\ traversal' = after_request(traversal, FALSE)
                /\ UNCHANGED comment
           ELSE LET out == db_patch(comment, c, text_set, t, u)
                IN  /\ comment' = out.comment
                    /\ response' = out.response
                    /\ traversal' = after_request(traversal, out.comment # comment)
        /\ Observe
        /\ UNCHANGED untouched
        /\ UNCHANGED id_seq

\* DELETE /delete/{comment_id}
delete ==
    \E u \in Users, c \in CommentIds :
        /\ request' = Req("delete", u, c, 0, FALSE, None, 0, None)
        /\ IF ~CommentIdPath(c)
           THEN /\ response' = validation_error
                /\ traversal' = after_request(traversal, FALSE)
                /\ UNCHANGED comment
           ELSE LET out == db_delete(comment, c, u)
                IN  /\ comment' = out.comment
                    /\ response' = out.response
                    /\ traversal' = after_request(traversal, out.comment # comment)
        /\ Observe
        /\ UNCHANGED untouched
        /\ UNCHANGED id_seq

\* a client asks for the first page: GET /read_all?limit=..., no last_id
traverse_start ==
    \E limit \in {l \in Limits : l >= 1} :
        /\ traversal.phase # "more"
        /\ request' = Req("read_all", 0, 0, 0, FALSE, None, limit, None)
        /\ response' = db_read_all(comment, limit, None)
        /\ traversal' = after_page([idle EXCEPT !.limit = limit, !.seq = id_seq],
                                   response')
        /\ Observe
        /\ UNCHANGED untouched
        /\ UNCHANGED <<comment, id_seq>>

\* the client asks for the next page: last_id = the next_cursor it was given
traverse_next ==
    /\ traversal.phase = "more"
    /\ request' = Req("read_all", 0, 0, 0, FALSE, None, traversal.limit, traversal.cursor)
    /\ response' = db_read_all(comment, traversal.limit, traversal.cursor)
    /\ traversal' = after_page(traversal, response')
    /\ Observe
    /\ UNCHANGED untouched
    /\ UNCHANGED <<comment, id_seq>>

(* ------------------------- sessions, step by step ------------------------ *)

\* the comment the requests sent at once are about: the first one created
TheComment == 1

\* the Update, Patch and Delete requests sent at once
SessionRequests ==
    {Req("update", u, TheComment, 0, TRUE, Some("bye"), 0, None) : u \in Users}
        \cup {Req("patch", u, TheComment, 0, b[1], b[2], 0, None) :
                  u \in Users,
                  b \in {<<FALSE, None>>, <<TRUE, None>>, <<TRUE, Some("hello")>>}}
        \cup {Req("delete", u, TheComment, 0, FALSE, None, 0, None) : u \in Users}

\* the storage error a statement or a commit can end with
StorageFault == Exc("OperationalError", "connection refused", "None")

\* the one statement of db_comment.update / patch / delete, run on the rows tbl
statement(tbl, req) ==
    CASE req.op = "update" ->
             db_update(tbl, req.comment_id, req.text, req.current_user_id)
      [] req.op = "patch" ->
             db_patch(tbl, req.comment_id, req.text_set, req.text, req.current_user_id)
      [] req.op = "delete" ->
             db_delete(tbl, req.comment_id, req.current_user_id)

\* the WHERE clause of that statement
statement_where(r, req) ==
    CASE req.op = "update" -> update_where(r, req.comment_id, req.current_user_id)
      [] req.op = "patch" -> patch_where(r, req.comment_id, req.current_user_id)
      [] req.op = "delete" -> delete_where(r, req.comment_id, req.current_user_id)

\* another session has written the row id and not yet committed or rolled
\* back: the database makes the statement wait
row_locked(s, id) ==
    \E o \in Sessions \ {s} : \E r \in session[o].old : r.id = id

InFlight(s) == session[s].pc \notin {"idle", "closed"}

\* a request arrives: "async with AsyncSessionLocal() as db: yield db"
begin(s) ==
    /\ ~InFlight(s)
    /\ session[s].pc = "closed" => \A o \in Sessions : ~InFlight(o)
    /\ \E req \in SessionRequests :
           IF \A o \in Sessions : ~InFlight(o)
           THEN /\ began' = comment
                /\ session' = [o \in Sessions |->
                                  IF o = s THEN [no_session EXCEPT !.pc = "open", !.req = req]
                                  ELSE no_session]
           ELSE /\ began' = began
                /\ session' = [session EXCEPT ![s] =
                                  [no_session EXCEPT !.pc = "open", !.req = req]]
    /\ UNCHANGED <<comment, id_seq, request, response, scenario, traversal, raised, mw>>

\* await db.execute(stmt): the rows the WHERE clause matches are written and
\* stay locked until the transaction ends; no row, or a statement the
\* database rejects, raises
execute(s) ==
    /\ session[s].pc = "open"
    /\ ~row_locked(s, session[s].req.comment_id)
    /\ LET req == session[s].req
           out == statement(comment, req)
           matched == {r \in comment : statement_where(r, req)}
       IN  IF matched = {} \/ out.response = programming_error_handler
           THEN session' = [session EXCEPT ![s].pc = "failed",
                                           ![s].resp = out.response]
           ELSE session' = [session EXCEPT
                                ![s].pc = "executed",
                                ![s].wrote = TRUE,
                                ![s].old = matched,
                                ![s].new = {r \in out.comment : r.id = req.comment_id},
                                ![s].resp = out.response]
    /\ UNCHANGED <<comment, began, id_seq, request, response, scenario, traversal,
                   raised, mw>>

\* await db.commit(), then model_validate of the returned row, which raises
\* on a NULL text
commit(s) ==
    /\ session[s].pc = "executed"
    /\ comment' = (comment \ session[s].old) \cup session[s].new
    /\ session' = [session EXCEPT
                       ![s].pc = IF session[s].resp = universal_handler
                                 THEN "failed" ELSE "returned",
                       ![s].old = {},
                       ![s].new = {}]
    /\ UNCHANGED <<began, id_seq, request, response, scenario, traversal, raised, mw>>

\* the statement or the commit ends with an error of the storage layer
storage_fails(s) ==
    /\ session[s].pc \in {"open", "executed"}
    /\ session' = [session EXCEPT ![s].pc = "failed",
                                  ![s].fault = TRUE,
                                  ![s].resp = exception_response(StorageFault)]
    /\ UNCHANGED <<comment, began, id_seq, request, response, scenario, traversal,
                   raised, mw>>

\* get_async_db once the request is over, without its except clause: the
\* session is closed at once
get_async_db_no_except(pc) == "closed"
\* get_async_db once the request is over: "except Exception: await
\* db.rollback(); raise" and then "finally: await db.close()"
get_async_db_exit(pc) == IF pc = "failed" THEN "rolled_back" ELSE "closed"

\* the next await of get_async_db: the rollback, or the close
session_exit(s) ==
    /\ session[s].pc \in {"returned", "failed", "rolled_back"}
    /\ session' = [session EXCEPT ![s].pc = get_async_db_exit(session[s].pc),
                                  ![s].old = {},
                                  ![s].new = {}]
    /\ UNCHANGED <<comment, began, id_seq, request, response, scenario, traversal,
                   raised, mw>>

\* POST /create of the first comment, before the requests sent at once
create_before ==
    id_seq = TheComment /\ (\A s \in Sessions : session[s].pc = "idle") /\ create

Next ==
    \/ create
    \/ read_all
    \/ update
    \/ patch
    \/ delete
    \/ traverse_start
    \/ traverse_next

Spec == Init /\ [][Next]_vars

NextFailures ==
    \/ request_raises
    \/ health_check

NextInserts ==
    \/ create
    \/ create_during
    \/ patch
    \/ delete
    \/ traverse_start
    \/ traverse_next

\* a client's traversal while other clients create, patch and delete
SpecInserts == Init /\ [][NextInserts]_vars

NextCorrelation ==
    \E t \in Tasks :
        \/ dispatch(t)
        \/ call_next_returns(t)
        \/ call_next_raises(t)

\* concurrent requests through CorrelationIdMiddleware
SpecCorrelation == Init /\ [][NextCorrelation]_vars

NextSessions ==
    \/ create_before
    \/ \E s \in Sessions :
           \/ begin(s)
           \/ execute(s)
           \/ commit(s)
           \/ storage_fails(s)
           \/ session_exit(s)

\* concurrent Update, Patch and Delete requests, await by await
SpecSessions == Init /\ [][NextSessions]_vars

\* every await of a request in flight returns or raises in the end
SpecSessionsFair ==
    SpecSessions /\ \A s \in Sessions :
                        WF_vars(execute(s) \/ commit(s) \/ session_exit(s))

\* the application when the handling of its requests fails
SpecFailures == Init /\ [][NextFailures]_vars

(* ------------------------------- claims -------------------------------- *)

\* a request the validation of its path and body let through
Admitted(resp) == resp.status_code # HTTP_422_UNPROCESSABLE_CONTENT

Writes == {"update", "patch", "delete"}

\* the error the spec calls NotFoundOrUnauthorized
NotFoundOrUnauthorized(req) ==
    IF req.op = "delete"
    THEN Resp(400, Detail("Comment either not found or unauthorized", 0))
    ELSE Resp(404, Detail("No comment with id: {comment_id} not found.", req.comment_id))

\* the ids of the rows S, largest first
RECURSIVE IdsDescending(_)
IdsDescending(S) ==
    IF S = {} THEN <<>>
    ELSE LET m == CHOOSE r \in S : \A q \in S : q.id <= r.id
         IN  <<m.id>> \o IdsDescending(S \ {m})

ListAllReturned == request.op = "read_all" /\ response.status_code = 200

\* C1. Ownership exclusivity: an Update, Patch or Delete of a stored comment C
\* by a user who does not own it ends with NotFoundOrUnauthorized, and C is
\* stored unchanged afterwards.
C1_OwnershipExclusivity ==
    [][\A C \in comment :
         (/\ request'.op \in Writes
          /\ Admitted(response')
          /\ request'.comment_id = C.id
          /\ request'.current_user_id # C.user_id)
         => (response' = NotFoundOrUnauthorized(request') /\ C \in comment')]_vars

\* C2. Pagination completeness: a traversal with a limit >= 1 that starts
\* without cursor and follows next_cursor until has_more is false, with no
\* write in between, returns exactly the stored comments, by descending id,
\* each once.
C2_PaginationComplete ==
    (traversal.phase \in {"done", "failed"} /\ traversal.quiet)
    => (traversal.phase = "done" /\ traversal.got = IdsDescending(comment))

\* C3. Exclusive cursor: when ListAll is given a cursor c, every item it
\* returns has id < c, and the items are in strictly descending id order.
C3_ExclusiveCursor ==
    (ListAllReturned /\ request.last_id # None)
    => LET items == response.body.items
       IN  /\ \A i \in 1 .. Len(items) : items[i].id < Val(request.last_id)
           /\ \A i, j \in 1 .. Len(items) : i < j => items[i].id > items[j].id

\* C4. has_more is true iff more than limit stored comments are eligible (all
\* of them, or those with id < last_id when a cursor is given); next_cursor is
\* the id of the last item of the page, or absent when there are no more pages.
C4_HasMoreAndNextCursor ==
    ListAllReturned
    => LET eligible == IF request.last_id = None THEN comment
                       ELSE {r \in comment : r.id < Val(request.last_id)}
           page == response.body
       IN  /\ page.has_more = (Cardinality(eligible) > request.limit)
           /\ (page.has_more /\ page.items # <<>>)
                  => page.next_cursor = Some(page.items[Len(page.items)].id)
           /\ ~page.has_more => page.next_cursor = None

\* C5. A page without items has next_cursor absent and has_more false.
C5_EmptyPage ==
    (ListAllReturned /\ response.body.items = <<>>)
    => (response.body.next_cursor = None /\ response.body.has_more = FALSE)

\* what the scenario of section 8 says of each response but the first
\* ListAll's next_cursor
ScenarioResponses ==
    /\ scenario = 1 =>
           /\ response.status_code = 201
           /\ response.body.id = 1 /\ response.body.user_id = 7
           /\ response.body.post_id = 1 /\ response.body.text = "hello"
    /\ scenario = 2 =>
           /\ response.status_code = 200
           /\ Len(response.body.items) = 1
           /\ \E r \in comment : response.body.items[1] = CommentDisplay(r)
           /\ response.body.items[1].id = 1
           /\ response.body.items[1].user_id = 7
           /\ response.body.items[1].post_id = 1
           /\ response.body.items[1].text = "hello"
           /\ response.body.has_more = FALSE
    /\ scenario = 3 => response = NotFoundOrUnauthorized(request)
    /\ scenario = 4 =>
           /\ response.status_code = 200
           /\ response.body.id = 1 /\ response.body.user_id = 7
           /\ response.body.post_id = 1 /\ response.body.text = "bye"
    /\ scenario = 5 => response.status_code = 204 /\ comment = {}
    /\ scenario = 6 =>
           /\ response.status_code = 200
           /\ response.body.items = <<>>
           /\ response.body.next_cursor = None
           /\ response.body.has_more = FALSE

\* C6 as claimed: the scenario, with next_cursor = 1 on the first ListAll.
C6_ScenarioAsClaimed ==
    ScenarioResponses /\ (scenario = 2 => response.body.next_cursor = Some(1))

\* C6. Scenario on an empty store: Create(post_id=1, "hello") by user 7
\* returns id 1; ListAll(limit=10) returns that comment alone, next_cursor
\* null, has_more false; Update(1, "bye") by user 9 fails with
\* NotFoundOrUnauthorized; by user 7 it returns the text "bye"; Delete(1) by
\* user 7 succeeds; ListAll then returns no items, next_cursor null, has_more
\* false.
C6_Scenario ==
    ScenarioResponses /\ (scenario = 2 => response.body.next_cursor = None)

C6_ScenarioRun == scenario = Len(Script)

\* C7. Partial patch identity: a Patch by the owner of a stored comment that
\* leaves text out leaves the stored text as it was; one that carries text
\* leaves the stored text equal to the text it carries.
C7_PartialPatch ==
    [][\A C \in comment :
         (/\ request'.op = "patch"
          /\ Admitted(response')
          /\ request'.comment_id = C.id
          /\ request'.current_user_id = C.user_id)
         => \E D \in comment' :
                /\ D.id = C.id
                /\ D.text = IF request'.text_set THEN request'.text ELSE C.text]_vars

C7_PatchOverwrote ==
    /\ request.op = "patch" /\ request.text_set /\ request.text = Some("bye")
    /\ response.status_code = 200 /\ response.body.text = "bye"
    /\ \E r \in comment : /\ r.id = request.comment_id
                          /\ r.user_id = request.current_user_id
                          /\ r.text = Some("bye")

\* C8. An Update, Patch or Delete whose id and owner match no row fails with
\* NotFoundOrUnauthorized (404 for Update and Patch, 400 for Delete), writes
\* nothing, and its response is the same whether the id is unknown or the
\* comment is someone else's.
C8_ZeroRowsNotFound ==
    [][(/\ request'.op \in Writes
        /\ Admitted(response')
        /\ ~\E r \in comment : /\ r.id = request'.comment_id
                               /\ r.user_id = request'.current_user_id)
       => (response' = NotFoundOrUnauthorized(request') /\ comment' = comment)]_vars

\* C9. The text of every stored comment is a string, not null, of at most
\* 256 characters.
C9_TextIsBoundedString ==
    \A r \in comment : r.text # None /\ Len(Val(r.text)) <= 256

\* C10. Immutability: a stored comment keeps its id, user_id, post_id and
\* timestamp for as long as it exists (no id is ever handed out twice), and
\* Update and Patch add no comment, remove none and leave every comment but
\* the one they name as it was.
C10_Immutable ==
    [][/\ \A C \in comment : C.id < id_seq
       /\ \A C \in comment : \A D \in comment' :
              D.id = C.id => /\ D.user_id = C.user_id
                             /\ D.post_id = C.post_id
                             /\ D.timestamp = C.timestamp
       /\ \A D \in comment' :
              (~\E C \in comment : C.id = D.id) => D.id >= id_seq
       /\ request'.op \in {"update", "patch"}
              => /\ {D.id : D \in comment'} = {C.id : C \in comment}
                 /\ \A C \in comment : C.id # request'.comment_id => C \in comment']_vars

C10_UpdatedLater ==
    /\ request.op = "update" /\ response.status_code = 200
    /\ Cardinality(comment) >= 2
    /\ \E r \in comment : /\ r.id = request.comment_id
                          /\ r.text = request.text
                          /\ r.timestamp < now

\* a ListAll for the first page: no cursor, room for at least one item
FirstPage(req) == req.op = "read_all" /\ req.last_id = None /\ req.limit >= 1

\* C11. Round-trip: the view a successful Create(post_id, text) returns
\* carries the post_id and text of the request, the caller as user_id, an id
\* above every id handed out before and a timestamp, and a ListAll that
\* follows at once shows that same comment.
C11_RoundTrip ==
    [][/\ (request'.op = "create" /\ response'.status_code = HTTP_201_CREATED)
          => LET view == response'.body
             IN  /\ view.post_id = request'.post_id
                 /\ view.text = Val(request'.text)
                 /\ view.user_id = request'.current_user_id
                 /\ view.id >= id_seq /\ view.id < id_seq'
                 /\ \A C \in comment : C.id < view.id
                 /\ view.timestamp = format_timestamp(now)
                 /\ \E r \in comment' \ comment : CommentDisplay(r) = view
       /\ (/\ request.op = "create" /\ response.status_code = HTTP_201_CREATED
           /\ FirstPage(request'))
          => /\ response'.status_code = HTTP_200_OK
             /\ response'.body.items # <<>>
             /\ response'.body.items[1] = response.body]_vars

\* the status the taxonomy gives each category of failure, by the classes
\* that make up the category; every other category is a 500
Status400 == {"DataError", "IdentifierError"}
Status404 == {"NoResultFound"}
Status409 == {"IntegrityError"}
Status503 == {"DisconnectionError", "InvalidatePoolError", "InterfaceError",
              "DBAPIError", "OperationalError"}
Status504 == {"TimeoutError"}
Status422 == {"RequestValidationError"}
Status500 ==
    {"MultipleResultsFound", "ResourceClosedError", "IllegalStateChangeError",
     "NoSuchTableError", "NoSuchColumnError", "NoReferencedTableError", "ProgrammingError",
     "StatementError", "ObjectNotExecutableError", "UnboundExecutionError", "NotSupportedError",
     "PendingRollbackError", "InvalidRequestError", "MissingGreenlet",
     "InternalError", "DatabaseError", "NoInspectionAvailable", "UnreflectableTableError",
     "NoForeignKeysError", "NoReferencedColumnError", "NoReferenceError",
     "AmbiguousForeignKeysError", "CircularDependencyError",
     "ConstraintColumnNotFoundError", "DuplicateColumnError",
     "ArgumentError", "AwaitRequired", "UnsupportedCompilationError", "CompileError",
     "NoSuchModuleError", "SQLAlchemyError"}
Classified ==
    Status400 \cup Status404 \cup Status409 \cup Status503 \cup Status504
        \cup Status422 \cup Status500

\* the status of the most specific category the class cls falls in
ClaimedStatus(cls) ==
    LET m == mro(cls)
        hit == {k \in DOMAIN m : m[k] \in Classified}
    IN  IF hit = {} THEN 500
        ELSE LET c == m[CHOOSE k \in hit : \A l \in hit : k <= l]
             IN  CASE c \in Status400 -> 400
                   [] c \in Status404 -> 404
                   [] c \in Status409 -> 409
                   [] c \in Status503 -> 503
                   [] c \in Status504 -> 504
                   [] c \in Status422 -> 422
                   [] OTHER -> 500

\* a request of the comment endpoints whose handling raised
Failed == raised # no_exception /\ request.op # "health"

\* C12. Error classifier: a request whose handling raises ends with the one
\* status of the most specific category of the exception: data-constraint
\* 400, no result found 404, integrity 409, connection/pool/driver 503,
\* timeout 504, request validation 422, every other category and anything
\* unclassified 500.
C12_ClassifierMapping ==
    Failed => response.status_code = ClaimedStatus(raised.cls)

\* a pool timeout is a 504 though it is a SQLAlchemyError, and a driver
\* connection failure is a 503 though it is a DatabaseError
C12_SpecificWins ==
    /\ Failed
    /\ \/ raised.cls = "TimeoutError" /\ response.status_code = 504
       \/ raised.cls = "OperationalError" /\ response.status_code = 503

\* the category of a failure: the handler that answers for its class
Category(exc) == lookup_handler(exc.cls)

\* the response to the request req had its handling raised exc
ResponseTo(req, exc) ==
    IF req.op = "health" THEN health_failure(exc) ELSE exception_response(exc)

\* C13. Opaque fixed payloads: the body sent for a failure is the same for
\* every failure of its category, whatever the class, the message and the
\* driver's error code of the exception, on /health as on the comment
\* endpoints.
C13_OpaquePayloads ==
    raised # no_exception
    => \A exc \in Exceptions :
           Category(exc) = Category(raised)
           => ResponseTo(request, exc).body = response.body

\* C14. Page-size bound: a page ListAll(limit, last_id) returns holds at
\* most limit items, whatever is stored and whatever the cursor.
C14_PageSizeBound ==
    ListAllReturned => Len(response.body.items) <= request.limit

\* a traversal that has ended, with a Create handled while it had a page to
\* come (seq is the sequence's next id when the traversal started)
TraversedUnderInserts ==
    traversal.phase \in {"done", "failed"} /\ id_seq > traversal.seq

\* C15. Stable under concurrent inserts: a traversal (first page without
\* cursor, then next_cursor until has_more is false) between whose pages
\* other clients create comments returns no comment twice, returns ids in
\* strictly descending order over all its pages, and returns every comment
\* that was stored when it started and was not deleted during it.
C15_StableUnderInserts ==
    TraversedUnderInserts
    => /\ traversal.phase = "done"
       /\ \A i, j \in 1 .. Len(traversal.got) :
              i < j => traversal.got[i] > traversal.got[j]
       /\ \A r \in comment :
              r.id < traversal.seq => \E i \in 1 .. Len(traversal.got) :
                                          traversal.got[i] = r.id

\* C16. Correlation id: the id of a request is its X-Request-ID header, or a
\* new id when it has none; the handling of the request sees that id in the
\* request context; every response, to a success or to an error, carries it
\* in X-Request-ID; and when the request ends the context variable is back
\* at its previous value.
C16_CorrelationId ==
    \A t \in Tasks :
        /\ mw[t].pc # "idle"
               => /\ mw[t].header # None => mw[t].corr_id = Val(mw[t].header)
                  /\ mw[t].header = None
                         => \A o \in Tasks \ {t} : mw[o].corr_id # mw[t].corr_id
        /\ mw[t].pc = "done"
               => /\ mw[t].seen = mw[t].corr_id
                  /\ mw[t].x_request_id = Some(mw[t].corr_id)
                  /\ mw[t].request_id_ctx = mw[t].token

\* the sessions of the requests sent at once that ended without a storage
\* error
Ran == {s \in Sessions : session[s].pc = "closed" /\ ~session[s].fault}

\* the orders in which the requests of the sessions S can be handled one by one
Orders(S) ==
    {o \in [1 .. Cardinality(S) -> S] : \A i, j \in DOMAIN o : i # j => o[i] # o[j]}

\* the table after the requests of the sessions order[1..k], each handled in
\* one step, on the rows tbl
RECURSIVE SerialTable(_, _, _)
SerialTable(tbl, order, k) ==
    IF k = 0 THEN tbl
    ELSE statement(SerialTable(tbl, order, k - 1), session[order[k]].req).comment

\* the table and every response are those of the requests handled one by one
\* in the given order
SerialOrder(order) ==
    /\ comment = SerialTable(began, order, Len(order))
    /\ \A k \in DOMAIN order :
           session[order[k]].resp =
               statement(SerialTable(began, order, k - 1), session[order[k]].req).response

\* the step of session s is its commit
Commits(s) == session[s].pc = "executed" /\ session'[s].pc \in {"returned", "failed"}

\* C17. Atomic owner-guarded writes: however concurrent Update, Patch and
\* Delete requests on one comment interleave, each request that writes
\* writes a row that exists and is owned by its caller at the instant of its
\* statement and still at its commit (so none writes a deleted comment), only
\* such a request answers with success, and once all have ended the table
\* and the responses are those of the requests handled one by one in some
\* order.
C17_AtomicWrites ==
    [][/\ \A s \in Sessions :
              /\ session'[s].pc = "executed"
                     => /\ session'[s].old # {}
                        /\ \A r \in session'[s].old :
                               /\ r \in comment'
                               /\ r.id = session'[s].req.comment_id
                               /\ r.user_id = session'[s].req.current_user_id
                        /\ \A o \in Sessions \ {s} :
                               session'[o].old \cap session'[s].old = {}
              /\ (session'[s].pc = "returned" /\ session[s].pc # "returned")
                     => /\ Commits(s)
                        /\ session[s].resp.status_code \in {HTTP_200_OK, HTTP_204_NO_CONTENT}
              /\ (/\ session'[s].resp.status_code \in {HTTP_200_OK, HTTP_204_NO_CONTENT}
                  /\ session'[s].pc = "closed" /\ session[s].pc # "closed")
                     => session[s].pc = "returned"
       /\ (session' # session /\ \A s \in Sessions : ~InFlight(s)')
              => \E order \in Orders(Ran') : SerialOrder(order)']_vars

\* a Delete and an Update by the owner were in flight together; the Delete
\* committed first and the Update found no row
C17_DeleteThenUpdate ==
    /\ \A s \in Sessions : session[s].pc = "closed" /\ ~session[s].fault
    /\ \E r \in began : r.id = TheComment /\ r.user_id = 7 /\ r \notin comment
    /\ session["s1"].req.op = "delete" /\ session["s1"].resp.status_code = HTTP_204_NO_CONTENT
    /\ session["s2"].req.op = "update" /\ session["s2"].req.current_user_id = 7
    /\ session["s2"].resp.status_code = HTTP_404_NOT_FOUND

\* the request of session s ended with an error response
RequestFailed(s) ==
    session[s].resp.status_code \notin {HTTP_200_OK, HTTP_204_NO_CONTENT}

\* C18. Scoped session: every request has a session of its own, which is
\* closed in the end whatever the way the request ends; the session of a
\* request that fails is rolled back before it is closed; and the table
\* changes by commits only, so a write that was executed and not committed
\* is never there for a later request.
C18_ScopedSession ==
    /\ [][/\ \A s \in Sessions :
                 /\ (session'[s].pc = "closed" /\ session[s].pc # "closed")
                        => /\ session[s].pc \in {"returned", "rolled_back"}
                           /\ RequestFailed(s) => session[s].pc = "rolled_back"
                 /\ session'[s].pc \in {"rolled_back", "closed"}
                        => session'[s].old = {} /\ session'[s].new = {}
          /\ comment' # comment
                 => \/ id_seq' # id_seq
                    \/ \E s \in Sessions :
                           /\ Commits(s)
                           /\ comment' = (comment \ session[s].old) \cup session[s].new]_vars
    /\ \A s \in Sessions : InFlight(s) ~> (session[s].pc = "closed")

\* an Update by the owner wrote, its commit failed, the session was rolled
\* back and closed, and the comment has the text it had
C18_RolledBack ==
    \E s \in Sessions :
        /\ session[s].pc = "closed" /\ session[s].fault /\ session[s].wrote
        /\ session[s].req.op = "update"
        /\ \E r \in comment : r.id = TheComment /\ r.text = Some("hello") /\ r \in began

\* C19. No state change on error: a Create, Update, Patch or Delete that
\* ends with an error response (any status but 200, 201 and 204) leaves the
\* stored comments and all their fields as they were; a change of the table
\* comes with a success response.
C19_NoChangeOnError ==
    [][(/\ request'.op \in {"create", "update", "patch", "delete"}
        /\ response'.status_code \notin {HTTP_200_OK, HTTP_201_CREATED, HTTP_204_NO_CONTENT})
       => comment' = comment]_vars
====
